---- MODULE Spec2Model ----
(***************************************************************************)
(* Model of fullCodeTxt.py: extract_and_combine_files(project_folder,      *)
(* file_paths, output_file).                                               *)
(*                                                                         *)
(* Text is a sequence of tokens (strings): a token is a single character   *)
(* such as "<", "\n", "\r", "/" or an indivisible fragment such as a path  *)
(* segment, the word "hello" or the fixed part of a message.  The output   *)
(* file `disk` is the text that the writes put into it, as a text-mode     *)
(* read of the output file returns it.                                      *)
(* A path string is the sequence of its segments between "/" separators:   *)
(* "/proj" is <<"", "proj">>, "src/b.py" is <<"src", "b.py">>.             *)
(* The output file is assumed not to be one of the input files.            *)
(***************************************************************************)
EXTENDS Naturals, Sequences, FiniteSets, TLC

VARIABLES
    file_paths,   \* argument: ordered list of relative paths
    fs,           \* the filesystem: resolved path -> [kind, content]
    disk,         \* content of output_file
    outfile,      \* output handle: "closed" | "open"
    infile,       \* set of resolved paths with an open input handle
    pc,           \* control point: source line about to run, "done", "failed"
    i,            \* position of the for loop in file_paths
    full_path,    \* local full_path
    file_name,    \* local file_name
    content,      \* local content
    exc,          \* str(e) of the exception being handled, or "none"
    stdout,       \* lines printed
    log,          \* events of the current run: [ev, idx, text]
    run,          \* number of the current call
    prevOutput,   \* output file left by the previous call
    prevClean     \* the previous call returned and none of its writes raised

vars == <<file_paths, fs, disk, outfile, infile, pc, i, full_path, file_name,
          content, exc, stdout, log, run, prevOutput, prevClean>>

\* ---------------------------------------------------------------- bounds
MaxPaths == 2
MaxContentLen == 1
MaxRuns == 2

\* ---------------------------------------------------------------- text
LF == "\n"
CR == "\r"

Alphabet == {"hello", CR, LF}

SeqsUpTo(S, n) == UNION {[1..k -> S] : k \in 0..n}

\* a line of a file with Windows line ends
WindowsLine == <<"hello", CR, LF>>

Contents == SeqsUpTo(Alphabet, MaxContentLen) \cup {WindowsLine}

Emit(s) == IF s = "" THEN <<>> ELSE <<s>>

Last(s) == s[Len(s)]
Front(s) == SubSeq(s, 1, Len(s) - 1)

\* ---------------------------------------------------------------- paths
project_folder == <<"", "proj">>

RelPaths == {<<"a.txt">>, <<"src", "b.py">>}

IsAbs(p) == Len(p) >= 2 /\ p[1] = ""

\* os.path.join(a, b)
Join(a, b) ==
    IF IsAbs(b) THEN b
    ELSE IF Last(a) = "" THEN Front(a) \o b
    ELSE a \o b

\* os.path.basename(p)
Basename(p) == Last(p)

RECURSIVE PathText(_)
PathText(p) ==
    IF Len(p) = 1 THEN Emit(p[1])
    ELSE Emit(p[1]) \o <<"/">> \o PathText(Tail(p))

FullPaths == {Join(project_folder, p) : p \in RelPaths}

\* ---------------------------------------------------------------- files
\* text: opens and decodes; undecodable: read raises UnicodeDecodeError;
\* unreadable: open raises (permissions, a directory); faulty: read raises
\* an I/O error; missing: os.path.exists is False
FileKinds == {"text", "undecodable", "unreadable", "faulty", "missing"}

FileStates ==
    {[kind |-> "text", content |-> c] : c \in Contents}
    \cup {[kind |-> k, content |-> <<>>] : k \in FileKinds \ {"text"}}

\* infile.read() in text mode with newline=None: "\r\n" and "\r" become "\n"
RECURSIVE UniversalNewlines(_)
UniversalNewlines(s) ==
    IF s = <<>> THEN <<>>
    ELSE IF s[1] = CR
         THEN <<LF>> \o UniversalNewlines(
                  IF Len(s) >= 2 /\ s[2] = LF THEN SubSeq(s, 3, Len(s)) ELSE Tail(s))
         ELSE <<s[1]>> \o UniversalNewlines(Tail(s))

\* ---------------------------------------------------------------- messages
HeaderText(fn) == Emit(fn) \o <<"<", LF, LF>>
FooterText(fn) == <<LF, LF, "END OF ">> \o Emit(fn) \o <<">", LF, LF>>
EncodingErrorText(fp) ==
    <<"Error: Unable to read ">> \o PathText(fp) \o <<" due to encoding issues.", LF>>
UnexpectedErrorText(fn, msg) ==
    <<"Error: An unexpected error occurred while reading ">> \o Emit(fn)
        \o <<": ", msg, LF>>
NotFoundText(fp) == <<"Error: File not found - ">> \o PathText(fp) \o <<LF, LF>>

\* str(e) of the exceptions the run can meet
OutputOpenErrorMsg == "[Errno 13] Permission denied: 'full_code.txt'"
OpenErrorMsg == "[Errno 13] Permission denied"
ReadErrorMsg == "[Errno 5] Input/output error"
WriteErrorMsg == "[Errno 28] No space left on device"

StaleText == <<"stale">>

\* ---------------------------------------------------------------- state
Event(e, t) == [ev |-> e, idx |-> i, text |-> t]

Init ==
    /\ file_paths \in SeqsUpTo(RelPaths, MaxPaths)
    /\ fs \in [FullPaths -> FileStates]
    /\ \A fp \in FullPaths :
          (\A k \in 1..Len(file_paths) : Join(project_folder, file_paths[k]) # fp)
              => fs[fp].kind = "missing"
    /\ disk = StaleText
    /\ outfile = "closed"
    /\ infile = {}
    /\ pc = "L4"
    /\ i = 0
    /\ full_path = <<>>
    /\ file_name = ""
    /\ content = <<>>
    /\ exc = "none"
    /\ stdout = <<>>
    /\ log = <<>>
    /\ run = 1
    /\ prevOutput = <<>>
    /\ prevClean = FALSE

Inputs == <<file_paths, fs>>
History == <<run, prevOutput, prevClean>>
Locals == <<full_path, file_name, content>>

\* outfile.write(t) returns normally
WriteOk(e, t) ==
    /\ disk' = disk \o t
    /\ log' = Append(log, Event(e, t))

\* outfile.write raises outside any try: the with statement closes outfile
\* and the exception leaves the function
WriteRaises ==
    /\ pc' = "failed"
    /\ exc' = WriteErrorMsg
    /\ outfile' = "closed"
    /\ log' = Append(log, Event("close_out", <<>>))
    /\ UNCHANGED <<disk, infile, i, Locals, stdout, Inputs, History>>

\* variant: the output is opened in append mode
OpenOutputAppend ==
    /\ pc = "L4"
    /\ \/ /\ outfile' = "open"
          /\ i' = 1
          /\ pc' = "L5"
          /\ log' = Append(log, Event("open_out", <<>>))
          /\ UNCHANGED <<exc, disk>>
       \/ /\ pc' = "failed"
          /\ exc' = OutputOpenErrorMsg
          /\ UNCHANGED <<disk, outfile, i, log>>
    /\ UNCHANGED <<infile, Locals, stdout, Inputs, History>>

\* variant: a failure to open the output is caught and the function goes on
\* to its last statement
OpenOutputSwallowed ==
    /\ pc = "L4"
    /\ \/ /\ disk' = <<>>
          /\ outfile' = "open"
          /\ i' = 1
          /\ pc' = "L5"
          /\ log' = Append(log, Event("open_out", <<>>))
          /\ UNCHANGED exc
       \/ /\ pc' = "L24"
          /\ exc' = OutputOpenErrorMsg
          /\ UNCHANGED <<disk, outfile, i, log>>
    /\ UNCHANGED <<infile, Locals, stdout, Inputs, History>>

\* line 4: open(output_file, 'w') truncates, or raises
OpenOutput ==
    /\ pc = "L4"
    /\ \/ /\ disk' = <<>>
          /\ outfile' = "open"
          /\ i' = 1
          /\ pc' = "L5"
          /\ log' = Append(log, Event("open_out", <<>>))
          /\ UNCHANGED exc
       \/ /\ pc' = "failed"
          /\ exc' = OutputOpenErrorMsg
          /\ UNCHANGED <<disk, outfile, i, log>>
    /\ UNCHANGED <<infile, Locals, stdout, Inputs, History>>

\* variant: the print statement sits inside the with block
ForNextNoClose ==
    /\ pc = "L5"
    /\ IF i <= Len(file_paths)
       THEN /\ full_path' = Join(project_folder, file_paths[i])
            /\ pc' = "L7"
       ELSE /\ pc' = "L24"
            /\ UNCHANGED full_path
    /\ UNCHANGED <<disk, outfile, log, infile, i, file_name, content, exc, stdout,
                   Inputs, History>>

\* lines 5-6: next element of the loop, or leave the with block
ForNext ==
    /\ pc = "L5"
    /\ IF i <= Len(file_paths)
       THEN /\ full_path' = Join(project_folder, file_paths[i])
            /\ pc' = "L7"
            /\ UNCHANGED <<outfile, log>>
       ELSE /\ outfile' = "closed"
            /\ pc' = "L24"
            /\ log' = Append(log, Event("close_out", <<>>))
            /\ UNCHANGED full_path
    /\ UNCHANGED <<disk, infile, i, file_name, content, exc, stdout, Inputs, History>>

\* lines 7-8: os.path.exists
Exists ==
    /\ pc = "L7"
    /\ IF fs[full_path].kind # "missing"
       THEN /\ file_name' = Basename(full_path)
            /\ pc' = "L9"
       ELSE /\ pc' = "L22"
            /\ UNCHANGED file_name
    /\ log' = Append(log, Event("exists", <<>>))
    /\ UNCHANGED <<disk, outfile, infile, i, full_path, content, exc, stdout,
                   Inputs, History>>

\* line 9
WriteHeader ==
    /\ pc = "L9"
    /\ \/ /\ WriteOk("header", HeaderText(file_name))
          /\ pc' = "L12"
          /\ UNCHANGED <<outfile, infile, i, Locals, exc, stdout, Inputs, History>>
       \/ WriteRaises

\* line 12: open(full_path, 'r')
OpenInfile ==
    /\ pc = "L12"
    /\ \/ /\ fs[full_path].kind # "unreadable"
          /\ infile' = infile \cup {full_path}
          /\ pc' = "L13"
          /\ log' = Append(log, Event("open_in", <<>>))
          /\ UNCHANGED exc
       \/ /\ fs[full_path].kind = "unreadable"
          /\ exc' = OpenErrorMsg
          /\ pc' = "L18"
          /\ UNCHANGED <<infile, log>>
    /\ UNCHANGED <<disk, outfile, i, Locals, stdout, Inputs, History>>

\* variant: no except clause for UnicodeDecodeError, which leaves the function
ReadInfileDecodeFatal ==
    /\ pc = "L13"
    /\ \/ /\ fs[full_path].kind = "text"
          /\ content' = UniversalNewlines(fs[full_path].content)
          /\ pc' = "L14"
          /\ log' = Append(log, Event("read", <<>>))
          /\ UNCHANGED <<infile, exc, outfile>>
       \/ /\ fs[full_path].kind = "undecodable"
          /\ infile' = infile \ {full_path}
          /\ pc' = "failed"
          /\ exc' = "UnicodeDecodeError"
          /\ outfile' = "closed"
          /\ log' = log \o <<Event("read", <<>>), Event("close_in", <<>>),
                              Event("close_out", <<>>)>>
          /\ UNCHANGED content
       \/ /\ fs[full_path].kind = "faulty"
          /\ infile' = infile \ {full_path}
          /\ pc' = "L18"
          /\ exc' = ReadErrorMsg
          /\ log' = log \o <<Event("read", <<>>), Event("close_in", <<>>)>>
          /\ UNCHANGED <<content, outfile>>
    /\ UNCHANGED <<disk, i, full_path, file_name, stdout, Inputs, History>>

\* variant: the input is opened with newline='' and read untranslated
ReadInfileRaw ==
    /\ pc = "L13"
    /\ \/ /\ fs[full_path].kind = "text"
          /\ content' = fs[full_path].content
          /\ pc' = "L14"
          /\ log' = Append(log, Event("read", <<>>))
          /\ UNCHANGED <<infile, exc>>
       \/ /\ fs[full_path].kind = "undecodable"
          /\ infile' = infile \ {full_path}
          /\ pc' = "L16"
          /\ exc' = "UnicodeDecodeError"
          /\ log' = log \o <<Event("read", <<>>), Event("close_in", <<>>)>>
          /\ UNCHANGED content
       \/ /\ fs[full_path].kind = "faulty"
          /\ infile' = infile \ {full_path}
          /\ pc' = "L18"
          /\ exc' = ReadErrorMsg
          /\ log' = log \o <<Event("read", <<>>), Event("close_in", <<>>)>>
          /\ UNCHANGED content
    /\ UNCHANGED <<disk, outfile, i, full_path, file_name, stdout, Inputs, History>>

\* line 13: infile.read(); an exception closes infile on its way out
ReadInfile ==
    /\ pc = "L13"
    /\ \/ /\ fs[full_path].kind = "text"
          /\ content' = UniversalNewlines(fs[full_path].content)
          /\ pc' = "L14"
          /\ log' = Append(log, Event("read", <<>>))
          /\ UNCHANGED <<infile, exc>>
       \/ /\ fs[full_path].kind = "undecodable"
          /\ infile' = infile \ {full_path}
          /\ pc' = "L16"
          /\ exc' = "UnicodeDecodeError"
          /\ log' = log \o <<Event("read", <<>>), Event("close_in", <<>>)>>
          /\ UNCHANGED content
       \/ /\ fs[full_path].kind = "faulty"
          /\ infile' = infile \ {full_path}
          /\ pc' = "L18"
          /\ exc' = ReadErrorMsg
          /\ log' = log \o <<Event("read", <<>>), Event("close_in", <<>>)>>
          /\ UNCHANGED content
    /\ UNCHANGED <<disk, outfile, i, full_path, file_name, stdout, Inputs, History>>

\* line 14: outfile.write(content), inside the try and the inner with
WriteContent ==
    /\ pc = "L14"
    /\ infile' = infile \ {full_path}
    /\ \/ /\ disk' = disk \o content
          /\ log' = log \o <<Event("content", content), Event("close_in", <<>>)>>
          /\ pc' = "L20"
          /\ UNCHANGED exc
       \/ /\ exc' = WriteErrorMsg
          /\ log' = log \o <<Event("write_error", <<>>), Event("close_in", <<>>)>>
          /\ pc' = "L18"
          /\ UNCHANGED disk
    /\ UNCHANGED <<outfile, i, Locals, stdout, Inputs, History>>

\* variant: the handler skips the rest of the iteration (continue)
WriteEncodingErrorNoFooter ==
    /\ pc = "L16"
    /\ \/ /\ WriteOk("enc_error", EncodingErrorText(full_path))
          /\ pc' = "L5"
          /\ i' = i + 1
          /\ exc' = "none"
          /\ UNCHANGED <<outfile, infile, Locals, stdout, Inputs, History>>
       \/ WriteRaises

\* lines 15-16: except UnicodeDecodeError
WriteEncodingError ==
    /\ pc = "L16"
    /\ \/ /\ WriteOk("enc_error", EncodingErrorText(full_path))
          /\ pc' = "L20"
          /\ exc' = "none"
          /\ UNCHANGED <<outfile, infile, i, Locals, stdout, Inputs, History>>
       \/ WriteRaises

\* variant: the handler skips the rest of the iteration (continue)
WriteUnexpectedErrorNoFooter ==
    /\ pc = "L18"
    /\ \/ /\ WriteOk("unexpected", UnexpectedErrorText(file_name, exc))
          /\ pc' = "L5"
          /\ i' = i + 1
          /\ exc' = "none"
          /\ UNCHANGED <<outfile, infile, Locals, stdout, Inputs, History>>
       \/ WriteRaises

\* lines 17-18: except Exception as e
WriteUnexpectedError ==
    /\ pc = "L18"
    /\ \/ /\ WriteOk("unexpected", UnexpectedErrorText(file_name, exc))
          /\ pc' = "L20"
          /\ exc' = "none"
          /\ UNCHANGED <<outfile, infile, i, Locals, stdout, Inputs, History>>
       \/ WriteRaises

\* line 20
WriteFooter ==
    /\ pc = "L20"
    /\ \/ /\ WriteOk("footer", FooterText(file_name))
          /\ pc' = "L5"
          /\ i' = i + 1
          /\ UNCHANGED <<outfile, infile, Locals, exc, stdout, Inputs, History>>
       \/ WriteRaises

\* variant: the header is written before the existence test, so a missing
\* file gets a header too
WriteNotFoundWithHeader ==
    /\ pc = "L22"
    /\ \/ /\ disk' = disk \o HeaderText(Basename(full_path)) \o NotFoundText(full_path)
          /\ log' = log \o <<Event("header", HeaderText(Basename(full_path))),
                              Event("not_found", NotFoundText(full_path))>>
          /\ pc' = "L5"
          /\ i' = i + 1
          /\ UNCHANGED <<outfile, infile, Locals, exc, stdout, Inputs, History>>
       \/ WriteRaises

\* variant: the message names file_path's last component, not full_path
WriteNotFoundBare ==
    /\ pc = "L22"
    /\ \/ /\ WriteOk("not_found", NotFoundText(<<Basename(full_path)>>))
          /\ pc' = "L5"
          /\ i' = i + 1
          /\ UNCHANGED <<outfile, infile, Locals, exc, stdout, Inputs, History>>
       \/ WriteRaises

\* lines 21-22
WriteNotFound ==
    /\ pc = "L22"
    /\ \/ /\ WriteOk("not_found", NotFoundText(full_path))
          /\ pc' = "L5"
          /\ i' = i + 1
          /\ UNCHANGED <<outfile, infile, Locals, exc, stdout, Inputs, History>>
       \/ WriteRaises

\* line 24
PrintComplete ==
    /\ pc = "L24"
    /\ stdout' = Append(stdout, "File extraction complete. Output saved to full_code.txt")
    /\ log' = Append(log, Event("print", <<>>))
    /\ pc' = "done"
    /\ UNCHANGED <<disk, outfile, infile, i, Locals, exc, Inputs, History>>

Events(l, e) == SelectSeq(l, LAMBDA r : r.ev = e)

\* the call returned and no write to outfile raised
Clean == pc = "done" /\ Events(log, "write_error") = <<>>

\* the caller runs the function again with the same arguments on the same
\* filesystem, after a call that returned with every write succeeding (an
\* exception that leaves the function ends the script)
CallAgain ==
    /\ Clean
    /\ run < MaxRuns
    /\ run' = run + 1
    /\ prevOutput' = disk
    /\ prevClean' = TRUE
    /\ pc' = "L4"
    /\ i' = 0
    /\ full_path' = <<>>
    /\ file_name' = ""
    /\ content' = <<>>
    /\ exc' = "none"
    /\ log' = <<>>
    /\ UNCHANGED <<disk, outfile, infile, stdout, Inputs>>

Step ==
    \/ OpenOutput
    \/ ForNext
    \/ Exists
    \/ WriteHeader
    \/ OpenInfile
    \/ ReadInfile
    \/ WriteContent
    \/ WriteEncodingError
    \/ WriteUnexpectedError
    \/ WriteFooter
    \/ WriteNotFound
    \/ PrintComplete

Next == Step \/ CallAgain

Spec == Init /\ [][Next]_vars

\* the interpreter always executes the next statement of a running call
FairSpec == Spec /\ WF_vars(Step)

\* ---------------------------------------------------------------- views
TypeOK ==
    /\ outfile \in {"open", "closed"}
    /\ infile \subseteq FullPaths
    /\ pc \in {"L4", "L5", "L7", "L9", "L12", "L13", "L14", "L16", "L18", "L20",
               "L22", "L24", "done", "failed"}
    /\ run \in 1..MaxRuns

RECURSIVE Flatten(_)
Flatten(l) == IF l = <<>> THEN <<>> ELSE Head(l).text \o Flatten(Tail(l))

Resolved(k) == Join(project_folder, file_paths[k])
KindAt(k) == fs[Resolved(k)].kind
Idx == 1..Len(file_paths)

\* iteration k of the loop has run to its end
Finished(k) == k \in Idx /\ i > k

IterLog(k) == SelectSeq(log, LAMBDA r : r.idx = k)
IterEvs(k) == [j \in 1..Len(IterLog(k)) |-> IterLog(k)[j].ev]
IterText(k) == Flatten(IterLog(k))
IterHas(k, e) == \E j \in 1..Len(IterLog(k)) : IterLog(k)[j].ev = e

\* "/proj/" followed by the relative path, token by token
Under_proj(p) == <<"/", "proj", "/">> \o PathText(p)
\* the last segment of the relative path
NameOf(k) == file_paths[k][Len(file_paths[k])]

HeaderLit(n) == <<n, "<", LF, LF>>
FooterLit(n) == <<LF, LF, "END OF ", n, ">", LF, LF>>

HeaderEvents == Events(log, "header")
ExistingIdx == SelectSeq([k \in Idx |-> k], LAMBDA k : KindAt(k) # "missing")

C3_MissingFile ==
    /\ \A k \in Idx :
        (Finished(k) /\ KindAt(k) = "missing") =>
            /\ IterEvs(k) = <<"exists", "not_found">>
            /\ IterText(k) = <<"Error: File not found - ">>
                                 \o Under_proj(file_paths[k]) \o <<LF, LF>>
    /\ pc = "done" => \A k \in Idx : IterHas(k, "exists")

C3_Witness ==
    /\ pc = "done"
    /\ \E k \in Idx : k < Len(file_paths) /\ KindAt(k) = "missing"

\* ---------------------------------------------------------------- C4
\* C4: for an existing path whose content does not decode, a finished
\* iteration wrote the header, then only the line "Error: Unable to read
\* /proj/<path> due to encoding issues.\n", then the footer; and the run is
\* not ended in that iteration unless a write to the output raises.
C4_EncodingError ==
    \A k \in Idx : KindAt(k) = "undecodable" =>
        /\ Finished(k) =>
            /\ IterEvs(k) = <<"exists", "header", "open_in", "read", "close_in",
                              "enc_error", "footer">>
            /\ IterText(k) = HeaderLit(NameOf(k))
                  \o <<"Error: Unable to read ">> \o Under_proj(file_paths[k])
                  \o <<" due to encoding issues.", LF>>
                  \o FooterLit(NameOf(k))
        /\ (pc = "failed" /\ i = k) => exc = WriteErrorMsg

C4_Witness ==
    \E k \in Idx : Finished(k) /\ KindAt(k) = "undecodable" /\ k < Len(file_paths)

\* ---------------------------------------------------------------- C5
Placeholder(kind) ==
    CASE kind = "missing" -> "not_found"
      [] kind = "undecodable" -> "enc_error"
      [] OTHER -> "unexpected"

\* C5: once the output file is open the call always ends; it ends by an
\* exception only when a write to the output file raised (never because an
\* input was missing, undecodable or unreadable); and when it returns it has
\* examined every path of the list exactly once, in list order, and has
\* written the placeholder of every path that was missing, undecodable or
\* unreadable.
C5_NoPerFileFailureIsFatal ==
    /\ (pc = "L5") ~> (pc = "done" \/ (pc = "failed" /\ exc = WriteErrorMsg))
    /\ [](pc = "failed" => exc \in {OutputOpenErrorMsg, WriteErrorMsg})
    /\ [](pc = "done" =>
            /\ [j \in 1..Len(Events(log, "exists")) |-> Events(log, "exists")[j].idx]
                   = [k \in Idx |-> k]
            /\ \A k \in Idx : KindAt(k) # "text" => IterHas(k, Placeholder(KindAt(k))))

C5_Witness ==
    /\ pc = "done"
    /\ \E k \in Idx : k < Len(file_paths) /\ KindAt(k) \in {"undecodable", "faulty"}

\* ---------------------------------------------------------------- C6
\* C6: when the call is repeated with the same arguments on the same
\* filesystem and both calls return with every write succeeding, the output
\* file after the second call equals the output file after the first; a
\* call's output is exactly what that call wrote, whatever the file held.
C6_Idempotent ==
    /\ (run >= 2 /\ prevClean /\ Clean) => disk = prevOutput
    /\ Clean => disk = Flatten(log)

C6_Witness == run >= 2 /\ prevClean /\ Clean /\ Len(disk) > 0

\* ---------------------------------------------------------------- C7
\* C7: when opening the output file raises, the call has failed and stays
\* failed: no path was examined, nothing was written (the output file holds
\* what it held), no handle is open and no completion notice is printed.
C7_OutputOpenFailure ==
    exc = OutputOpenErrorMsg =>
        /\ pc = "failed"
        /\ log = <<>>
        /\ disk = (IF run = 1 THEN StaleText ELSE prevOutput)
        /\ outfile = "closed" /\ infile = {}
        /\ Len(stdout) = run - 1
        /\ ~ENABLED Next

C7_Witness == exc = OutputOpenErrorMsg /\ Len(file_paths) >= 1

\* ---------------------------------------------------------------- C8
\* C8 (as claimed): an exception raised by a write to the output file is
\* never caught by a per-file handler: it ends the call, and no "unexpected
\* error occurred while reading" placeholder reports it.
C8_OutputWriteErrorsPropagate ==
    /\ exc = WriteErrorMsg => pc = "failed"
    /\ \A j \in 1..Len(log) : log[j].ev = "unexpected" =>
           \A m \in 1..Len(log[j].text) : log[j].text[m] # WriteErrorMsg

\* ---------------------------------------------------------------- C9
Marks == SelectSeq(log, LAMBDA r : r.ev \in {"header", "footer"})

\* C9: for every existing path whose iteration has finished, whatever the
\* read did, the iteration wrote exactly one header and exactly one footer,
\* the footer names the file the header names, comes last and follows the
\* content or a placeholder; and at every point of the run headers and
\* footers alternate, starting with a header.
C9_HeaderFooterPairing ==
    /\ \A k \in Idx : (Finished(k) /\ KindAt(k) # "missing") =>
           /\ Len(Events(IterLog(k), "header")) = 1
           /\ Len(Events(IterLog(k), "footer")) = 1
           /\ Events(IterLog(k), "footer")[1].text
                  = FooterLit(Events(IterLog(k), "header")[1].text[1])
           /\ IterLog(k)[Len(IterLog(k))].ev = "footer"
           /\ \E e \in {"content", "enc_error", "unexpected"} : IterHas(k, e)
    /\ \A j \in 1..Len(Marks) :
           Marks[j].ev = (IF j % 2 = 1 THEN "header" ELSE "footer")

C9_Witness ==
    /\ pc = "done"
    /\ \E k \in Idx : KindAt(k) = "unreadable"
    /\ \E k \in Idx : KindAt(k) = "faulty"

\* ---------------------------------------------------------------- C10
Count(e, j) == Len(Events(SubSeq(log, 1, j), e))

\* C10: in a call the output handle is opened at most once, before any path is
\* examined, and every examination and write happens while it is open; at
\* most one input file is open at a time and none is open when a footer is
\* written; the completion notice is printed once per returning call, right
\* after the output handle is closed and after every path was examined, and
\* with an empty list the call can only fail by the output failing to open.
C10_ResourceOrder ==
    /\ Count("open_out", Len(log)) <= 1
    /\ Count("close_out", Len(log)) <= 1
    /\ (outfile = "open") <=>
           (Count("open_out", Len(log)) = 1 /\ Count("close_out", Len(log)) = 0)
    /\ \A j \in 1..Len(log) : log[j].ev \notin {"open_out", "close_out", "print"} =>
           /\ log[1].ev = "open_out"
           /\ Count("close_out", j) = 0
    /\ Cardinality(infile) <= 1
    /\ pc = "L20" => infile = {}
    /\ \A j \in 1..Len(log) : log[j].ev = "footer" =>
           Count("open_in", j) = Count("close_in", j)
    /\ Len(stdout) = (IF pc = "done" THEN run ELSE run - 1)
    /\ Count("print", Len(log)) = (IF pc = "done" THEN 1 ELSE 0)
    /\ pc = "done" =>
           /\ outfile = "closed"
           /\ log[Len(log)].ev = "print"
           /\ log[Len(log) - 1].ev = "close_out"
           /\ Count("exists", Len(log)) = Len(file_paths)
    /\ pc = "L24" => ENABLED PrintComplete
    /\ (file_paths = <<>> /\ pc = "failed") => exc = OutputOpenErrorMsg

C10_Witness ==
    /\ pc = "done"
    /\ Len(file_paths) >= 2
    /\ \E k \in Idx : KindAt(k) = "text"
====
